---------------------------- MODULE Spec2Model ----------------------------
(***************************************************************************)
(* A model of the numerical core of MARBLE:                                *)
(*   src/MARBLE/layers.py          setup_layers, AnisoConv, Diffusion,     *)
(*                                 InnerProductFeatures                    *)
(*   src/MARBLE/postprocessing.py  postprocessing, compare_attractors      *)
(*                                                                         *)
(* Tensors are modelled by their shapes and, where a claim is about        *)
(* values, by small integer matrices.  Every operation is one action that  *)
(* runs the whole Python function and records what it did: the events in   *)
(* program order, the exception raised (if any) and the result.            *)
(*                                                                         *)
(* The five components share no state, so each has its own specification   *)
(* (SpecDiffusion, SpecAniso, SpecIP, SpecPost, SpecSetup); in each, the    *)
(* variables of the other components stay at their idle values.            *)
(***************************************************************************)
EXTENDS Integers, Sequences, FiniteSets

VARIABLES
    diffusion_time,  \* Diffusion.diffusion_time, on the grid described at Eps
    lcRows,          \* Lc.shape[0] of the dataset's connection Laplacian
    eigL, eigLc,     \* calls of g.compute_eigendecomposition on L / on Lc so far
    specL, specLc,   \* spectral forward calls so far that used L / Lc
    nCalls,          \* Diffusion.forward calls so far
    dcall,           \* record of the last Diffusion.forward call
    conv,            \* record of the last AnisoConv call
    ipf,             \* record of the last InnerProductFeatures.forward call:
                     \* x is the argument on entry, after is the caller's
                     \* argument when the call ends
    data,            \* the dataset object handed to postprocessing.py
    pcall,           \* record of the last postprocessing.py call
    layers           \* record of the last setup_layers call

dvars == <<diffusion_time, lcRows, eigL, eigLc, specL, specLc, nCalls, dcall>>
vars  == <<diffusion_time, lcRows, eigL, eigLc, specL, specLc, nCalls, dcall,
           conv, ipf, data, pcall, layers>>

(***************************************************************************)
(* Helpers                                                                 *)
(***************************************************************************)
RECURSIVE Pow(_, _)
Pow(b, k) == IF k = 0 THEN 1 ELSE b * Pow(b, k - 1)

RECURSIVE SumSeq(_)
SumSeq(s) == IF s = <<>> THEN 0 ELSE Head(s) + SumSeq(Tail(s))

Idle == [op |-> "none"]

(***************************************************************************)
(* Diffusion (layers.py 114-148)                                           *)
(***************************************************************************)

\* Bounds of the diffusion model.
MaxT == 3
MaxRows == 2
MaxCols == 3
MaxLc == 3
MaxCalls == 2

\* The clamp floor, min=1e-8 of layers.py line 128.  Times are counted in
\* units of 5e-9, so that the grid has values below zero, zero, values
\* strictly between zero and the floor, the floor and values above it.
\* (The parameter is a float32 tensor: the floor the clamp stores is the
\* float32 value nearest to 1e-8, which is what grid point Eps stands for.)
Eps == 2

Times == (-MaxT)..MaxT
Methods == {"spectral", "matrix_exp"}

\* The optional argument Lc of forward: None, or the dataset's connection
\* Laplacian, an m x m operator.
NoLc == [given |-> FALSE, rows |-> 0]
TheLc(m) == [given |-> TRUE, rows |-> m]

\* torch.clamp(self.diffusion_time, min=1e-8)
ClampIdentity(v) == v
Clamp(v) == IF v < Eps THEN Eps ELSE v

\* par_L, par_Lc = {'L': L}, {'Lc': Lc}: the key sets of the two dicts as
\* line 124 builds them on every call.
ParLKeys == {"L"}
ParLcKeys == {"Lc"}

\* Lines 133 and 143: is compute_eigendecomposition called in this call?
NeedsEig(method, keys) == method = "spectral" /\ "evals" \notin keys

\* Line 136: x.shape[0]*x.shape[1] % Lc.shape[0] == 0 (Python groups * and %
\* left to right).
DimOk(xr, xc, m) == ((xr * xc) % m) = 0

\* The events of one forward call, in program order.
ForwardEvents(xr, xc, Lc, method) ==
    <<"clamp">> \o
    (IF Lc.given
     THEN (IF NeedsEig(method, ParLcKeys) THEN <<"eig_Lc">> ELSE <<>>) \o
          (IF DimOk(xr, xc, Lc.rows)
           THEN <<"vector_diffusion">>
           ELSE <<"AssertionError">>)
     ELSE (IF NeedsEig(method, ParLKeys) THEN <<"eig_L">> ELSE <<>>) \o
          <<"scalar_diffusion">>)

Has(events, e) == \E i \in 1..Len(events) : events[i] = e

\* Diffusion.forward(x, L, Lc, method)
Forward(xr, xc, Lc, method) ==
    LET ev == ForwardEvents(xr, xc, Lc, method)
        t  == Clamp(diffusion_time)
    IN  /\ nCalls < MaxCalls
        /\ diffusion_time' = t
        /\ nCalls' = nCalls + 1
        /\ eigL'  = eigL  + (IF Has(ev, "eig_L")  THEN 1 ELSE 0)
        /\ eigLc' = eigLc + (IF Has(ev, "eig_Lc") THEN 1 ELSE 0)
        /\ specL'  = specL  + (IF ~Lc.given /\ method = "spectral" THEN 1 ELSE 0)
        /\ specLc' = specLc + (IF Lc.given /\ method = "spectral" THEN 1 ELSE 0)
        /\ dcall' = [op      |-> "forward",
                     xr      |-> xr,
                     xc      |-> xc,
                     Lc      |-> Lc,
                     method  |-> method,
                     entry   |-> diffusion_time,
                     t       |-> t,
                     stored  |-> diffusion_time',
                     events  |-> ev,
                     raised  |-> IF Has(ev, "AssertionError")
                                 THEN "AssertionError" ELSE "none",
                     out     |-> ~Has(ev, "AssertionError")]
        /\ UNCHANGED lcRows

DiffusionForward ==
    \E xr \in 1..MaxRows, xc \in 1..MaxCols, method \in Methods,
       Lc \in {NoLc, TheLc(lcRows)} :
        Forward(xr, xc, Lc, method)

\* The optimiser step of the training loop writes the learned parameter.
TrainingStep ==
    \E v \in Times :
        /\ diffusion_time' = v
        /\ UNCHANGED <<lcRows, eigL, eigLc, specL, specLc, nCalls, dcall>>

\* Diffusion.__init__(ic=0.0) and a dataset with its Laplacians.
InitDiffusion ==
    /\ diffusion_time = 0
    /\ lcRows \in 1..MaxLc
    /\ eigL = 0 /\ eigLc = 0 /\ specL = 0 /\ specLc = 0
    /\ nCalls = 0
    /\ dcall = Idle

IdleDiffusion ==
    /\ diffusion_time = 0
    /\ lcRows = 1
    /\ eigL = 0 /\ eigLc = 0 /\ specL = 0 /\ specLc = 0
    /\ nCalls = 0
    /\ dcall = Idle

NextDiffusion ==
    \/ DiffusionForward /\ UNCHANGED <<conv, ipf, data, pcall, layers>>
    \/ TrainingStep /\ UNCHANGED <<conv, ipf, data, pcall, layers>>


(***************************************************************************)
(* AnisoConv (layers.py 56-111)                                            *)
(***************************************************************************)

\* Bounds of the convolution model: nodes, in_channels, |kernels|, vector
\* dimension.
MaxV == 3
MaxCh == 4
MaxK == 3
MaxD == 2

ShapeError == [raised |-> "RuntimeError", rows |-> 0, cols |-> 0]
Shape(r, c) == [raised |-> "none", rows |-> r, cols |-> c]

\* What an out-of-bounds read of the sparse product does: it goes unnoticed
\* (the result has its shape, with whatever was read), or the process dies.
UBOutcomes == {"none", "SegFault"}

\* K_t.matmul(x, reduce='add') of line 98, K_t being ktRows x ktCols and x
\* being xr x xc.  The sparse product sizes its result, ktRows x xc, from the
\* row pointer of K_t and the columns of x; it does not compare the columns
\* of K_t with the rows of x.  With ktCols <= xr every stored column index
\* addresses a row of x.  With ktCols > xr a stored entry in a column beyond
\* the rows of x is read out of bounds, and ub is what that read does.
SparseProduct(ktRows, ktCols, xr, xc, ub) ==
    IF ktCols > xr /\ ub # "none"
    THEN [raised |-> ub, rows |-> 0, cols |-> 0]
    ELSE Shape(ktRows, xc)

\* Line 94: (K_t.size(dim=1) % n*dim)==0.  Python gives % and * the same
\* precedence and groups them left to right.
ReshapeGuardProduct(ktCols, n, dim) == (ktCols % (n * dim)) = 0
ReshapeGuard(ktCols, n, dim) == ((ktCols % n) * dim) = 0

\* AnisoConv.message_and_aggregate(K_t, x) on shapes: K_t is ktRows x ktCols,
\* x is n x dim.  The result records whether line 96 reshaped x, the shape
\* x had when it reached the sparse product, and the returned shape.
MessageAndAggregate(ktRows, ktCols, n, dim, ub) ==
    LET guard == ReshapeGuard(ktCols, n, dim)
        n_ch  == (n * dim) \div ktCols
        \* x.view(-1, n_ch)
        viewOk == n_ch > 0 /\ (n * dim) % n_ch = 0
        xr == IF guard THEN (IF viewOk THEN (n * dim) \div n_ch ELSE 0) ELSE n
        xc == IF guard THEN n_ch ELSE dim
        prod == SparseProduct(ktRows, ktCols, xr, xc, ub)
        \* x.view(-1, dim)
        backOk == (prod.rows * prod.cols) % dim = 0
        res == IF guard /\ ~viewOk THEN ShapeError
               ELSE IF prod.raised # "none" THEN prod
               ELSE IF ~backOk THEN ShapeError
               ELSE Shape((prod.rows * prod.cols) \div dim, dim)
    IN  [ktRows |-> ktRows, ktCols |-> ktCols, n |-> n, dim |-> dim,
         reshaped |-> guard, xr |-> xr, xc |-> xc,
         raised |-> res.raised, rows |-> res.rows, cols |-> res.cols]

\* Lines 80-81: torch.stack(out, axis=2) of nk tensors r x c, then
\* view(r, -1).  Stacking an empty list raises.
StackKernels(mp, nk) ==
    IF nk = 0 THEN ShapeError
    ELSE IF mp.raised # "none"
         THEN [raised |-> mp.raised, rows |-> 0, cols |-> 0]
    ELSE Shape(mp.rows, mp.cols * nk)

\* AnisoConv.forward(x, edge_index, size, kernels, R) on shapes: x is V x dim,
\* size = (s0, s1), nk kernels, and R is None (D = 0) or carries D x D
\* blocks.  With R, line 66 scales size by D.  The sparse kernel has shape
\* size, and its transpose K_t, s1 x s0, goes to message_and_aggregate.
AnisoForward(V, dim, nk, D, s0, s1, ub) ==
    LET k  == IF D > 0 THEN D ELSE 1
        mp == MessageAndAggregate(s1 * k, s0 * k, V, dim, ub)
        res == StackKernels(mp, nk)
    IN  [op |-> "forward", V |-> V, dim |-> dim, nk |-> nk, D |-> D,
         s0 |-> s0, s1 |-> s1, mp |-> mp,
         raised |-> res.raised, rows |-> res.rows, cols |-> res.cols]

\* The arguments of a call: of forward, or of message_and_aggregate reached
\* through propagate with any sparse matrix.
ConvArgs ==
    {[op |-> "forward_args", V |-> V, dim |-> dim, nk |-> nk, D |-> D,
      s0 |-> s0, s1 |-> s1] :
        V \in 1..MaxV, dim \in 1..MaxCh, nk \in 0..MaxK, D \in 0..MaxD,
        s0 \in 1..MaxV, s1 \in 1..MaxV}
    \cup
    {[op |-> "message_args", ktRows |-> ktRows, ktCols |-> ktCols,
      n |-> n, dim |-> dim] :
        ktRows \in 1..(MaxV * MaxD), ktCols \in 1..(MaxV * MaxD),
        n \in 1..MaxV, dim \in 1..MaxCh}

ConvForward ==
    /\ conv.op = "forward_args"
    /\ \E ub \in UBOutcomes :
        conv' = AnisoForward(conv.V, conv.dim, conv.nk, conv.D,
                             conv.s0, conv.s1, ub)
    /\ UNCHANGED <<dvars, ipf, data, pcall, layers>>

ConvMessage ==
    /\ conv.op = "message_args"
    /\ \E ub \in UBOutcomes :
        conv' = [op |-> "message_and_aggregate",
                 mp |-> MessageAndAggregate(conv.ktRows, conv.ktCols,
                                            conv.n, conv.dim, ub)]
    /\ UNCHANGED <<dvars, ipf, data, pcall, layers>>

InitConv == conv \in ConvArgs

NextAniso ==
    \/ ConvForward
    \/ ConvMessage

(***************************************************************************)
(* InnerProductFeatures (layers.py 151-202)                                *)
(***************************************************************************)

\* Bounds of the reducer model: the configured C, and the number of entries
\* (rows times columns, summed over the list) of an input.
MaxC == 2
MaxEntries == 4

\* Entries of input tensors.
Vals == {-2, 0, 1}

\* Lists of column counts n_i of the tensors of an input with V rows.
ColumnLists(V) ==
    {cs \in UNION {[1..k -> 1..MaxEntries] : k \in 1..MaxEntries} :
        V * SumSeq(cs) <= MaxEntries}

\* Columns of the list that precede tensor i.
Offset(cs, i) == SumSeq(SubSeq(cs, 1, i - 1))

\* The input as Python sees it: a list of V x n_i tensors, cut out of one
\* V x (sum n_i) matrix M of entries.
Tensors(V, cs, M) ==
    [i \in 1..Len(cs) |->
        [v \in 1..V |-> [c \in 1..cs[i] |-> M[v][Offset(cs, i) + c]]]]

TRows(t) == Len(t)
TCols(t) == Len(t[1])

\* x_.reshape(x_.shape[0], self.D, -1), row-major: entry [v, k, j] of the
\* reshaped tensor, with ch = n_i / D channels.
Reshaped(t, D, v, k, j) == t[v][(k - 1) * (TCols(t) \div D) + j]

\* reset_parameters: O[j].weight = torch.eye(D); entry [k, l] of O[j].
Weight(j, k, l) == IF k = l THEN 1 ELSE 0

\* The sum of f over a finite set of integers.
RECURSIVE SumOver(_, _)
SumOver(S, f) ==
    IF S = {} THEN 0
    ELSE LET a == CHOOSE b \in S : TRUE
         IN  f[a] + SumOver(S \ {a}, f)

\* x_.norm(dim=2) of the reshaped V x 1 x ch tensor: one value per row, the
\* root of the sum of squares over the last axis.  A norm is recorded by the
\* number under the root.
NormDim1(t) ==
    [v \in 1..TRows(t) |-> [j \in 1..TCols(t) |-> t[v][j] * t[v][j]]]
NormDim2(t) ==
    [v \in 1..TRows(t) |->
        <<SumOver(1..TCols(t), [j \in 1..TCols(t) |-> t[v][j] * t[v][j]])>>]

\* torch.cat(x, axis=1) of V-row matrices.
RECURSIVE CatCols(_, _)
CatCols(ms, V) ==
    IF ms = <<>> THEN [v \in 1..V |-> <<>>]
    ELSE LET rest == CatCols(Tail(ms), V)
         IN  [v \in 1..V |-> Head(ms)[v] \o rest[v]]

\* Lines 191-202 on well-shaped input: x is V x D x C after the cat; Ox[b,k,j]
\* is row k of O[j] applied to x[b,:,j]; xOx[b,i] = sum_k sum_j x[b,k,i]*Ox[b,k,j].
InnerProducts(x, V, D, C) ==
    LET ch(i) == TCols(x[i]) \div D
        \* entry [b, k, j] of torch.cat(x, axis=2), j over all channels
        RECURSIVE At(_, _, _, _)
        At(i, b, k, j) ==
            IF j <= ch(i) THEN Reshaped(x[i], D, b, k, j)
            ELSE At(i + 1, b, k, j - ch(i))
        Ox(b, k, j) ==
            SumOver(1..D, [l \in 1..D |-> Weight(j, k, l) * At(1, b, l, j)])
    IN  [b \in 1..V |->
            [i \in 1..C |->
                SumOver(1..D, [k \in 1..D |->
                    SumOver(1..C, [j \in 1..C |->
                        At(1, b, k, i) * Ox(b, k, j)])])]]

\* Line 193: assert x.shape[2]==self.C
ChannelsAtLeast(total, C) == total >= C
ChannelsOk(total, C) == total = C

\* InnerProductFeatures.forward(x) of a reducer configured with (C, D), by
\* what it raises or returns; x is the list of tensors as it is on entry (a
\* lone tensor is wrapped at line 177).
IPForward(C, D, x) ==
    LET V == TRows(x[1])
        n == Len(x)
        total == SumSeq([i \in 1..n |-> TCols(x[i]) \div D])
    IN  IF \E i \in 1..n : TCols(x[i]) % D # 0
        THEN [raised |-> "RuntimeError", root |-> FALSE, out |-> <<>>]
        ELSE IF D = 1
        THEN [raised |-> "none", root |-> TRUE,
              out |-> CatCols([i \in 1..n |-> NormDim2(x[i])], V)]
        ELSE IF ~ChannelsOk(total, C)
        THEN [raised |-> "AssertionError", root |-> FALSE, out |-> <<>>]
        ELSE [raised |-> "none", root |-> FALSE,
              out |-> InnerProducts(x, V, D, C)]

\* A tensor as the caller's list holds it: its shape, its entries row by row
\* (reshape keeps the row-major order) and whether the entries are norms.
Held(shape, root, rows) == [shape |-> shape, root |-> root, rows |-> rows]

\* The caller's argument after the call.  A lone tensor is wrapped in a new
\* list at line 177 and stays as it was.  A list is written into: line 180
\* stores each reshaped tensor into x[i], up to the first tensor whose reshape
\* raises, and with D = 1 line 185 then stores each norm into x[i].
ListAfter(D, x, isList) ==
    LET n == Len(x)
        V == TRows(x[1])
        bad == {i \in 1..n : TCols(x[i]) % D # 0}
        firstBad == IF bad = {} THEN n + 1
                    ELSE CHOOSE i \in bad : \A j \in bad : i <= j
        orig(i) == Held(<<V, TCols(x[i])>>, FALSE, x[i])
    IN  [i \in 1..n |->
            IF ~isList \/ i >= firstBad THEN orig(i)
            ELSE IF D = 1 THEN Held(<<V, 1>>, TRUE, NormDim2(x[i]))
            ELSE Held(<<V, D, TCols(x[i]) \div D>>, FALSE, x[i])]

IPInputs ==
    UNION {
      UNION {
        {[V |-> V, isList |-> l, x |-> Tensors(V, cs, M)] :
            M \in [1..V -> [1..SumSeq(cs) -> Vals]],
            l \in (IF Len(cs) = 1 THEN BOOLEAN ELSE {TRUE})}
        : cs \in ColumnLists(V)}
      : V \in 1..MaxEntries}

\* InnerProductFeatures(C, D) constructed, and an input prepared for it.
InitIP ==
    \E C \in 1..MaxC, D \in 1..MaxD, inp \in IPInputs :
        ipf = [op |-> "input", C |-> C, D |-> D, V |-> inp.V,
               isList |-> inp.isList, x |-> inp.x]

ReducerForward ==
    /\ ipf.op = "input"
    /\ LET r == IPForward(ipf.C, ipf.D, ipf.x)
       IN  ipf' = [op |-> "forward", C |-> ipf.C, D |-> ipf.D, V |-> ipf.V,
                   isList |-> ipf.isList, x |-> ipf.x,
                   after |-> ListAfter(ipf.D, ipf.x, ipf.isList),
                   raised |-> r.raised, root |-> r.root, out |-> r.out]
    /\ UNCHANGED <<dvars, conv, data, pcall, layers>>

NextIP == ReducerForward


(***************************************************************************)
(* postprocessing.py                                                       *)
(***************************************************************************)

\* Bounds of the dataset model: number of slices, nodes per slice.
MaxSlices == 3
MaxSliceLen == 2

\* data._slice_dict['x']: the boundaries 0 = b_1 < b_2 < ... of the slices,
\* one more boundary than slices.
RECURSIVE Boundaries(_)
Boundaries(lens) ==
    IF lens = <<>> THEN <<0>>
    ELSE LET b == Boundaries(SubSeq(lens, 1, Len(lens) - 1))
         IN  Append(b, b[Len(b)] + lens[Len(lens)])

SliceDicts ==
    {Boundaries(lens) :
        lens \in UNION {[1..k -> 1..MaxSliceLen] : k \in 1..MaxSlices}}

\* Lines 42-47: what postprocessing attaches to data.
PostAttrs == {"emb_2d", "manifold", "clusters", "dist", "gamma", "cdist"}

\* postprocessing(data, ...): line 26 reads data.emb; lines 29-39 are calls
\* into the geometry library; lines 42-47 attach the results.
Postprocessing ==
    /\ IF "emb" \in data.attrs
       THEN /\ data' = [data EXCEPT !.attrs = data.attrs \cup PostAttrs]
            /\ pcall' = [op |-> "postprocessing", raised |-> "none", line |-> 0]
       ELSE /\ data' = data
            /\ pcall' = [op |-> "postprocessing", raised |-> "AttributeError",
                         line |-> 26]
    /\ UNCHANGED <<dvars, conv, ipf, layers>>

\* The second argument of hasattr at line 54: the tuple ('emb_2d', ).
AttrNameArg == [isStr |-> FALSE, items |-> <<"emb_2d">>]

\* The builtin hasattr(obj, name): a name that is not a str raises TypeError.
HasAttr(attrs, name) ==
    IF ~name.isStr THEN "TypeError"
    ELSE IF name.items[1] \in attrs THEN "True" ELSE "False"

\* Python list indexing seq[i]: valid for -len <= i < len.
IndexOk(seq, i) == -Len(seq) <= i /\ i < Len(seq)

\* Line 63: assert s<n_slices-2 and t<n_slices-1
RangeAssert(s, t, n_slices) == s < n_slices - 2 /\ t < n_slices - 1

\* compare_attractors(data, (s, t)) up to the first exception: the exception
\* raised and the line that raised it ("none": the checks of lines 54-64
\* passed and the call goes on to the plotting).
CompareAttractors(d, s, t) ==
    LET h == HasAttr(d.attrs, AttrNameArg)
        slices == d.slices
        n_slices == Len(slices) - 1
    IN  IF h = "TypeError" THEN [raised |-> "TypeError", line |-> 54]
        ELSE IF h = "False" THEN [raised |-> "AssertionError", line |-> 54]
        ELSE IF ~IndexOk(slices, s) \/ ~IndexOk(slices, s + 1)
            THEN [raised |-> "IndexError", line |-> 60]
        ELSE IF ~IndexOk(slices, t) \/ ~IndexOk(slices, t + 1)
            THEN [raised |-> "IndexError", line |-> 61]
        ELSE IF ~RangeAssert(s, t, n_slices)
            THEN [raised |-> "AssertionError", line |-> 63]
        ELSE IF s = t THEN [raised |-> "AssertionError", line |-> 64]
        ELSE [raised |-> "none", line |-> 0]

Compare ==
    \E s \in (-(MaxSlices + 1))..(MaxSlices + 1),
       t \in (-(MaxSlices + 1))..(MaxSlices + 1) :
        /\ LET r == CompareAttractors(data, s, t)
           IN  pcall' = [op |-> "compare_attractors", s |-> s, t |-> t,
                         post |-> PostAttrs \subseteq data.attrs,
                         raised |-> r.raised, line |-> r.line]
        /\ UNCHANGED <<dvars, conv, ipf, data, layers>>

\* A dataset as the dataset construction leaves it, with or without the
\* embedding the trained network attaches.
InitPost ==
    /\ data \in {[attrs |-> a, slices |-> b] :
                    a \in {{"x", "pos"}, {"x", "pos", "emb"}},
                    b \in SliceDicts}
    /\ pcall = Idle

IdlePost ==
    /\ data = [attrs |-> {"x", "pos"}, slices |-> <<0, 1>>]
    /\ pcall = Idle

NextPost ==
    \/ Postprocessing
    \/ Compare

(***************************************************************************)
(* setup_layers (layers.py 15-50)                                          *)
(***************************************************************************)

\* Bounds of the configuration: signal_dim, emb_dim, order, depth.
MaxS == 3
MaxE == 3
MaxO == 2
MaxDepth == 2

\* Python's a // b on integers, b # 0: the floor of the quotient.
PyFloorDiv(a, b) == IF b > 0 THEN a \div b ELSE (-a) \div (-b)

\* Line 26: s*((1-e**(o+1))//(1-e)); the division raises when e = 1.
CumChannelsRaises(s, e, o) == 1 - e = 0
CumChannelsBase(s, e, o) == s * PyFloorDiv(1 - Pow(e, o + 1), 1 - e)

\* Lines 26-30.
CumChannels(s, e, o, ip) ==
    LET c == CumChannelsBase(s, e, o)
    IN  IF ~ip THEN c
        ELSE IF s = 1 THEN o + 1
        ELSE PyFloorDiv(c, s)

\* setup_layers(par): the layers it builds, by their channel counts.
SetupLayers(s, e, o, ip, depth) ==
    IF CumChannelsRaises(s, e, o)
    THEN [op |-> "setup_layers", s |-> s, e |-> e, o |-> o, ip |-> ip,
          depth |-> depth, raised |-> "ZeroDivisionError",
          grad |-> 0, convs |-> <<>>, ipC |-> 0, ipD |-> 0, mlpIn |-> 0]
    ELSE LET c == CumChannels(s, e, o, ip)
         IN  [op |-> "setup_layers", s |-> s, e |-> e, o |-> o, ip |-> ip,
              depth |-> depth, raised |-> "none",
              grad |-> o, convs |-> [i \in 1..depth |-> <<c, c>>],
              ipC |-> c, ipD |-> s, mlpIn |-> c]

\* The configurations par handed to setup_layers.
SetupArgs ==
    {[op |-> "par", s |-> s, e |-> e, o |-> o, ip |-> ip, depth |-> depth] :
        s \in 1..MaxS, e \in 1..MaxE, o \in 0..MaxO, ip \in BOOLEAN,
        depth \in 0..MaxDepth}

Setup ==
    /\ layers.op = "par"
    /\ layers' = SetupLayers(layers.s, layers.e, layers.o, layers.ip,
                             layers.depth)
    /\ UNCHANGED <<dvars, conv, ipf, data, pcall>>

InitSetup == layers \in SetupArgs

NextSetup == Setup

(***************************************************************************)
(* Specifications                                                          *)
(***************************************************************************)
InitDiffusionSpec ==
    InitDiffusion /\ conv = Idle /\ ipf = Idle /\ IdlePost /\ layers = Idle
InitAnisoSpec ==
    IdleDiffusion /\ InitConv /\ ipf = Idle /\ IdlePost /\ layers = Idle
InitIPSpec ==
    IdleDiffusion /\ conv = Idle /\ InitIP /\ IdlePost /\ layers = Idle
InitPostSpec ==
    IdleDiffusion /\ conv = Idle /\ ipf = Idle /\ InitPost /\ layers = Idle
InitSetupSpec ==
    IdleDiffusion /\ conv = Idle /\ ipf = Idle /\ IdlePost /\ InitSetup

SpecDiffusion == InitDiffusionSpec /\ [][NextDiffusion]_vars
SpecAniso == InitAnisoSpec /\ [][NextAniso]_vars
SpecIP == InitIPSpec /\ [][NextIP]_vars
SpecPost == InitPostSpec /\ [][NextPost]_vars
SpecSetup == InitSetupSpec /\ [][NextSetup]_vars

(***************************************************************************)
(* Claims                                                                  *)
(***************************************************************************)

\* C1 (as claimed): over any sequence of spectral forward calls on one
\* Diffusion operator with the same L (or the same Lc), the
\* eigendecomposition of that Laplacian is computed on the first call only.
C1_EigComputedOnce ==
    /\ eigL  = (IF specL  > 0 THEN 1 ELSE 0)
    /\ eigLc = (IF specLc > 0 THEN 1 ELSE 0)

\* C2: whatever diffusion_time holds on entry, the clamp is the first thing a
\* forward call does, the time handed to scalar_diffusion / vector_diffusion
\* is at least the floor, and so is the stored diffusion_time on return.
C2_TimeClampedBeforeUse ==
    dcall.op = "forward" =>
        /\ dcall.events[1] = "clamp"
        /\ dcall.stored >= Eps
        /\ (Has(dcall.events, "scalar_diffusion")
             \/ Has(dcall.events, "vector_diffusion")) => dcall.t >= Eps

\* C2 witness: a second call that found a negative time, written by the
\* training loop after the first call, and went on to diffuse.
C2_Witness ==
    /\ nCalls = 2
    /\ dcall.op = "forward"
    /\ dcall.entry < 0
    /\ dcall.out

\* C3 (as claimed): a vector-diffusion call whose input violates
\* (rows(X)*cols(X)) mod rows(Lc) == 0 raises the dimension error before the
\* eigendecomposition of Lc is computed and produces no output; a call that
\* satisfies the condition is not rejected.
C3_DimensionCheckFailsFast ==
    (dcall.op = "forward" /\ dcall.Lc.given) =>
        IF (dcall.xr * dcall.xc) % dcall.Lc.rows # 0
        THEN /\ dcall.raised = "AssertionError"
             /\ ~Has(dcall.events, "eig_Lc")
             /\ ~dcall.out
        ELSE dcall.raised = "none"

\* C4 (as claimed): compare_attractors on a dataset postprocessing never ran
\* on fails the 'No clusters found' assertion of line 54; after
\* postprocessing has run, that check passes.
C4_ClusterPrecondition ==
    pcall.op = "compare_attractors" =>
        IF pcall.post
        THEN pcall.line # 54
        ELSE pcall.raised = "AssertionError" /\ pcall.line = 54

\* C5 (as claimed): on a postprocessed dataset with n_slices slices,
\* compare_attractors accepts (s, t) exactly when s # t and both lie in
\* 0..n_slices-1, and fails with the assertion error for every other pair.
C5_PairAcceptedIffDistinctInRange ==
    (pcall.op = "compare_attractors" /\ pcall.post) =>
        LET n_slices == Len(data.slices) - 1
            valid == /\ pcall.s # pcall.t
                     /\ 0 <= pcall.s /\ pcall.s < n_slices
                     /\ 0 <= pcall.t /\ pcall.t < n_slices
        IN  IF valid THEN pcall.raised = "none"
            ELSE pcall.raised = "AssertionError" /\ pcall.line \in {63, 64}

Abs(a) == IF a < 0 THEN -a ELSE a

\* Total number of columns of a list of tensors.
TotalCols(x) == SumSeq([i \in 1..Len(x) |-> TCols(x[i])])

\* C6 (as claimed): with D = 1 the reducer returns a V x C matrix, C the
\* total number of input channels, whose every entry is the absolute value of
\* the corresponding input entry.
C6_AbsPerChannel ==
    (ipf.op = "forward" /\ ipf.D = 1) =>
        /\ ipf.raised = "none"
        /\ Len(ipf.out) = ipf.V
        /\ \A v \in 1..ipf.V :
            /\ Len(ipf.out[v]) = TotalCols(ipf.x)
            /\ \A c \in 1..Len(ipf.out[v]) :
                 LET a == CatCols(ipf.x, ipf.V)[v][c]
                 IN  ipf.out[v][c] = a * a

\* C6 (amended): with D = 1 the reducer returns a V x T matrix, T the number
\* of tensors of the input; entry (v, i) is the L2 norm of row v of tensor i
\* taken over all channels of that tensor: non-negative, at least the
\* absolute value of every entry of that row, and equal to the absolute
\* value of the entry when the tensor has one channel.
C6_NormPerTensor ==
    (ipf.op = "forward" /\ ipf.D = 1) =>
        /\ ipf.raised = "none"
        /\ ipf.root
        /\ Len(ipf.out) = ipf.V
        /\ \A v \in 1..ipf.V :
            /\ Len(ipf.out[v]) = Len(ipf.x)
            /\ \A i \in 1..Len(ipf.x) :
                 LET row == ipf.x[i][v]
                 IN  /\ ipf.out[v][i] >= 0
                     /\ ipf.out[v][i] =
                            SumSeq([j \in 1..Len(row) |-> row[j] * row[j]])
                     /\ \A j \in 1..Len(row) : ipf.out[v][i] >= row[j] * row[j]
                     /\ Len(row) = 1 => ipf.out[v][i] = Abs(row[1]) * Abs(row[1])

\* C6 witness: the reducer ran with D = 1 on a list holding a tensor with two
\* non-zero channels in one row, next to a single-channel tensor.
C6_Witness ==
    /\ ipf.op = "forward" /\ ipf.D = 1 /\ ipf.raised = "none"
    /\ \E i \in 1..Len(ipf.x) :
        /\ TCols(ipf.x[i]) >= 2
        /\ ipf.x[i][1][1] # 0 /\ ipf.x[i][1][2] # 0
    /\ \E i \in 1..Len(ipf.x) : TCols(ipf.x[i]) = 1 /\ ipf.x[i][1][1] < 0

\* Number of channels of the input of a reducer of vector dimension D whose
\* tensors all have a multiple of D columns.
TotalChannels(x, D) == SumSeq([i \in 1..Len(x) |-> TCols(x[i]) \div D])
WellShaped(x, D) == \A i \in 1..Len(x) : TCols(x[i]) % D = 0

\* C7 (as claimed): for every (C, D), D = 1 included, forward fails with the
\* channel-count error whenever the input's channel count differs from C
\* and returns a result only when it equals C.
C7_ChannelCountChecked ==
    (ipf.op = "forward" /\ WellShaped(ipf.x, ipf.D)) =>
        IF TotalChannels(ipf.x, ipf.D) # ipf.C
        THEN ipf.raised = "AssertionError"
        ELSE ipf.raised = "none"

\* C7 (amended): for D > 1 and input tensors whose column counts are
\* multiples of D, forward fails with the channel-count error whenever the
\* channel count differs from C and returns a V x C result when it equals C
\* (a column count that is no multiple of D fails in the reshape instead);
\* for D = 1 there is no channel-count check and forward returns for every
\* input.
C7_ChannelCountCheckedVectorOnly ==
    ipf.op = "forward" =>
        IF ipf.D = 1 THEN ipf.raised = "none"
        ELSE IF ~WellShaped(ipf.x, ipf.D) THEN ipf.raised = "RuntimeError"
        ELSE IF TotalChannels(ipf.x, ipf.D) # ipf.C
             THEN ipf.raised = "AssertionError"
             ELSE /\ ipf.raised = "none"
                  /\ Len(ipf.out) = ipf.V
                  /\ \A v \in 1..ipf.V : Len(ipf.out[v]) = ipf.C

\* C7 witness: a vector reducer rejected an input with more channels than C.
C7_Witness ==
    /\ ipf.op = "forward" /\ ipf.D > 1
    /\ WellShaped(ipf.x, ipf.D)
    /\ TotalChannels(ipf.x, ipf.D) > ipf.C
    /\ ipf.raised = "AssertionError"

\* C8 (as claimed): for a graph of V nodes, a non-empty kernel list and a
\* signal with V rows and in_channels columns, forward returns V rows and
\* |kernels| * in_channels columns, without R and with R.
C8_OutputColumns ==
    (conv.op = "forward" /\ conv.nk >= 1
        /\ conv.s0 = conv.V /\ conv.s1 = conv.V) =>
        /\ conv.raised = "none"
        /\ conv.rows = conv.V
        /\ conv.cols = conv.nk * conv.dim

\* C8 (amended): as C8 without R, and with R when in_channels is a multiple
\* of the vector dimension D; with R and in_channels no multiple of D the
\* call either fails with a shape error or returns a matrix with fewer than
\* V rows.
C8_OutputColumnsAligned ==
    (conv.op = "forward" /\ conv.nk >= 1
        /\ conv.s0 = conv.V /\ conv.s1 = conv.V) =>
        IF conv.D = 0 \/ conv.dim % conv.D = 0
        THEN /\ conv.raised = "none"
             /\ conv.rows = conv.V
             /\ conv.cols = conv.nk * conv.dim
        ELSE \/ conv.raised = "RuntimeError"
             \/ conv.raised = "none" /\ conv.rows < conv.V

\* C8 witness: a call with R of vector dimension 2, two vector channels and
\* several kernels returned.
C8_Witness ==
    /\ conv.op = "forward" /\ conv.raised = "none"
    /\ conv.D = 2 /\ conv.dim = 4 /\ conv.nk >= 2 /\ conv.V >= 2
    /\ conv.s0 = conv.V /\ conv.s1 = conv.V

\* C9 (as claimed): message_and_aggregate reshapes the signal only when the
\* column count of K_t is a multiple of n*dim; otherwise the signal reaches
\* the sparse product as it came, n x dim.
C9_ReshapeOnlyWhenMultiple ==
    (conv.op = "message_and_aggregate"
        \/ (conv.op = "forward" /\ conv.nk >= 1)) =>
        ((conv.mp.ktCols % (conv.mp.n * conv.mp.dim)) # 0 =>
            /\ conv.mp.xr = conv.mp.n
            /\ conv.mp.xc = conv.mp.dim)

\* The columns accumulated from an s-column input and o gradient layers, each
\* multiplying the column count by e.
RECURSIVE Accumulated(_, _, _)
Accumulated(cols, e, o) ==
    IF o = 0 THEN cols ELSE cols + Accumulated(cols * e, e, o - 1)

\* C10 (as claimed): for s >= 1, e >= 1, o >= 0 and inner_product_features
\* false, setup_layers completes and gives the message-passing layers, the
\* reducer and the MLP input s * (1 + e + ... + e^o) channels.
C10_ChannelCount ==
    (layers.op = "setup_layers" /\ ~layers.ip) =>
        LET c == Accumulated(layers.s, layers.e, layers.o)
        IN  /\ layers.raised = "none"
            /\ layers.ipC = c
            /\ layers.mlpIn = c
            /\ Len(layers.convs) = layers.depth
            /\ \A i \in 1..Len(layers.convs) : layers.convs[i] = <<c, c>>

=============================================================================
